---- MODULE Spec2Model ----
(***************************************************************************)
(* L-shaped decomposition driver of Milestone_2/2_src/L_shape_method.py    *)
(* with the helper functions of modeling_helper/utilities.py.              *)
(*                                                                         *)
(* Quantities are fixed point integers.  Energy (p1, pg, p2, loads, pmax)  *)
(* is counted in grid units, money in cost units.  Everything the code     *)
(* divides by the number of scenarios is kept multiplied by it, so that    *)
(* no division is rounded:                                                 *)
(*   alpha[h], upper_bound, lower_bound and the cut terms hold N times     *)
(*   the value of the Python variable, N = Len of SAMPLES (sample_size).   *)
(* The external solver is an oracle that returns any optimal solution of   *)
(* the program it is given (primal values, and for the sub problem any     *)
(* optimal dual values of the two pinning equalities).                     *)
(***************************************************************************)
EXTENDS Integers, Sequences, FiniteSets, TLC

VARIABLES
    c1, c2, l1, pmax, alpha_down, epsilon, \* parameters (lines 33-65, 158)
    l2s,             \* list of real time prices (lines 48-53)
    SAMPLES,         \* scenario i -> hour -> load (line 59)
    k,               \* position of the loop "for l2 in l2s" (1-based)
    master,          \* master model: its cut constraint sets, by name index
    results_master,  \* get_results(master): u, p1, alpha
    sub,             \* sub model: constructed right-hand sides
    pl,              \* the global load vector the con_load rule reads
    results_sub,     \* scenario index -> get_results(sub, dual=True)
    i,               \* position of the loop over the samples
    iteration, converged, upper_bound, lower_bound,
    bounds_difference, objective_values, lower_bounds,
    pc,              \* position of the script
    solver,          \* which optimal basic solution the solver reports
    loaded,          \* the solutions held by the variables of the two models
    faults,          \* solver failures the environment may still produce
    hist,            \* history: what the checks and cuts were computed from
    np_random,       \* state of the global generator np.random
    csv_output,      \* model option (line 21)
    files,           \* the directory 3_results: file name -> content
    euc              \* the variables of Milestone_1/2_src/EUC_model.py

vars == <<c1, c2, l1, pmax, alpha_down, epsilon, l2s, SAMPLES, k, master,
          results_master, sub, pl, results_sub, i, iteration, converged,
          upper_bound, lower_bound, bounds_difference, objective_values,
          lower_bounds, pc, solver, loaded, faults,
          hist, np_random, csv_output, files, euc>>

\* what the price loop only reads: the options and parameters, the solver's
\* rule and the generator, which is not used after line 59
params == <<c1, c2, l1, pmax, alpha_down, epsilon, l2s, SAMPLES, solver,
            np_random, csv_output>>

\* ------------------------------------------------------------------------
\* Bounds of the explored instances
\* ------------------------------------------------------------------------
MaxHours == 2
MaxSamples == 2
MaxLoad == 2
MaxDev == 2
MaxSeed == 1
MaxFaults == 1
MaxCalls == 2

\* ------------------------------------------------------------------------
\* Basic helpers
\* ------------------------------------------------------------------------
SetMax(S) == CHOOSE x \in S : \A y \in S : y <= x

SetMin(S) == CHOOSE x \in S : \A y \in S : x <= y

Abs(x) == IF x < 0 THEN -x ELSE x

RECURSIVE SumOver(_, _)
\* sum(f[x] for x in S)
SumOver(f, S) ==
    IF S = {} THEN 0
    ELSE LET x == CHOOSE y \in S : TRUE
         IN f[x] + SumOver(f, S \ {x})

sample_size == Cardinality(DOMAIN SAMPLES)

SCEN == DOMAIN SAMPLES

HOURS == DOMAIN SAMPLES[0]

l2 == l2s[k]

LexLess(a, b) == a[1] < b[1] \/ (a[1] = b[1] /\ a[2] <= b[2])

\* The solver is deterministic software: of several optimal solutions it
\* reports the one its pivoting rule reaches.  The rule is not known, so it
\* is a choice: "lo" reports the least optimal pair, "hi" the greatest.
TieRules == {"lo", "hi"}

Tie(rule, S) ==
    IF rule = "lo" THEN CHOOSE a \in S : \A b \in S : LexLess(a, b)
    ELSE CHOOSE a \in S : \A b \in S : LexLess(b, a)

\* ------------------------------------------------------------------------
\* Helper functions of the script and of utilities.py
\* ------------------------------------------------------------------------

\* objective value for all hours (the summand of the upper bound)
objective(u, p1, pg, p2) ==
    SumOver([h \in HOURS |-> c1*u[h] + l1*p1[h] + c2*pg[h] + l2*p2[h]], HOURS)

\* variant: the value function estimate is left out of the lower bound
master_prob_no_alpha(u, p1, alpha) ==
    SumOver([h \in HOURS |-> c1*u[h] + l1*p1[h]], HOURS)

\* lower bound of the decomposition
master_prob(u, p1, alpha) ==
    SumOver([h \in HOURS |-> c1*u[h] + l1*p1[h] + alpha[h]], HOURS)

\* variant: the running sum starts from the upper bound of the last call
convergence_check_accumulating(rm, rs, samples, eps) ==
    LET total == SumOver([s \in DOMAIN samples |->
                            objective(rs[s].u, rs[s].p1, rs[s].pg, rs[s].p2)],
                         DOMAIN samples)
        ub == upper_bound + (total \div Cardinality(DOMAIN samples))
        lb == master_prob(rm.u, rm.p1, rm.alpha)
    IN  [converged |-> ~(ub - lb > eps), upper_bound |-> ub, lower_bound |-> lb]

\* variant: the gap is compared by its absolute value
convergence_check_abs(rm, rs, samples, eps) ==
    LET total == SumOver([s \in DOMAIN samples |->
                            objective(rs[s].u, rs[s].p1, rs[s].pg, rs[s].p2)],
                         DOMAIN samples)
        ub == total \div Cardinality(DOMAIN samples)
        lb == master_prob(rm.u, rm.p1, rm.alpha)
    IN  [converged |-> ~(Abs(ub - lb) > eps), upper_bound |-> ub,
         lower_bound |-> lb]

\* variant: a gap equal to epsilon does not count as converged
convergence_check_strict(rm, rs, samples, eps) ==
    LET total == SumOver([s \in DOMAIN samples |->
                            objective(rs[s].u, rs[s].p1, rs[s].pg, rs[s].p2)],
                         DOMAIN samples)
        ub == total \div Cardinality(DOMAIN samples)
        lb == master_prob(rm.u, rm.p1, rm.alpha)
    IN  [converged |-> ~(ub - lb >= eps), upper_bound |-> ub,
         lower_bound |-> lb]

\* returns (converged, upper_bound, lower_bound); its first two arguments
\* are the functions objective and master_prob at both calls
convergence_check(rm, rs, samples, eps) ==
    LET total == SumOver([s \in DOMAIN samples |->
                            objective(rs[s].u, rs[s].p1, rs[s].pg, rs[s].p2)],
                         DOMAIN samples)
        ub == total \div Cardinality(DOMAIN samples)
        lb == master_prob(rm.u, rm.p1, rm.alpha)
    IN  [converged |-> ~(ub - lb > eps), upper_bound |-> ub, lower_bound |-> lb]

\* ------------------------------------------------------------------------
\* Master model: objective, alphacon1 and the cut constraints
\* ------------------------------------------------------------------------

\* variant: the dual terms are not shifted by the master values
cut_unshifted(rs, rm, H) ==
    [terms |-> [s \in SCEN |->
                  [k0 |-> c2*rs[s].pg[H] + l2*rs[s].p2[H],
                   d1 |-> rs[s].dual_con1[H], u0 |-> 0,
                   d2 |-> rs[s].dual_con2[H], p0 |-> 0]],
     sample_size |-> sample_size]

\* the constraint the rule cut(master, H) returns for hour H: the numbers of
\* results_sub and results_master are fixed when the constraint is built;
\* term s is  k0 + d1*(master.u[H] - u0) + d2*(master.p1[H] - p0)
cut(rs, rm, H) ==
    [terms |-> [s \in SCEN |->
                  [k0 |-> c2*rs[s].pg[H] + l2*rs[s].p2[H],
                   d1 |-> rs[s].dual_con1[H], u0 |-> rm.u[H],
                   d2 |-> rs[s].dual_con2[H], p0 |-> rm.p1[H]]],
     sample_size |-> sample_size]

\* variant: the sum over the scenarios is not divided by sample_size
CutLhsSum(con, u, p1) ==
    SumOver([s \in DOMAIN con.terms |->
                 con.terms[s].k0 + con.terms[s].d1*(u - con.terms[s].u0)
                 + con.terms[s].d2*(p1 - con.terms[s].p0)],
            DOMAIN con.terms)

\* left-hand side of a cut constraint at master.u[H] = u, master.p1[H] = p1
CutLhs(con, u, p1) ==
    SumOver([s \in DOMAIN con.terms |->
                 con.terms[s].k0 + con.terms[s].d1*(u - con.terms[s].u0)
                 + con.terms[s].d2*(p1 - con.terms[s].p0)],
            DOMAIN con.terms) \div con.sample_size

\* variant: the model object is created once, before the price loop, and
\* keeps the cuts of the price points before
NewMasterKeepingCuts ==
    [alphacon1 |-> [h \in HOURS |-> alpha_down],
     cuts |-> IF master = <<>> THEN <<>> ELSE master.cuts]

\* variant: alpha is bounded below by 0
NewMasterZeroFloor == [alphacon1 |-> [h \in HOURS |-> 0], cuts |-> <<>>]

\* pyo.ConcreteModel() with alphacon1 (lines 120-159)
NewMaster == [alphacon1 |-> [h \in HOURS |-> alpha_down], cuts |-> <<>>]

\* variant: every cut is attached under the same name
setattr_same_name(m, name, con) == [m EXCEPT !.cuts = (1 :> con)]

\* setattr(master, f'cut_{name}', pyo.Constraint(master.H, rule=cut))
setattr(m, name, con) == [m EXCEPT !.cuts = (name :> con) @@ @]

MaxSampleLoad ==
    SetMax({0} \cup {SAMPLES[s][h] : s \in SCEN, h \in HOURS})

\* No optimal master solution has p1 above this: u = 0, p1 = 0 costs at most
\* l2 * MaxSampleLoad per hour and every solution costs at least
\* l1*p1 + alpha_down.
P1Bound == ((l2 * MaxSampleLoad - alpha_down) \div l1) + 1

\* variant: the newest cut is not yet part of the solved model
AlphaLeastStale(m, H, u, p1) ==
    SetMax({m.alphacon1[H]} \cup
           {CutLhs(m.cuts[n][H], u, p1) :
               n \in {j \in DOMAIN m.cuts : \E q \in DOMAIN m.cuts : q > j}})

\* variant: only the newest cut is kept next to alphacon1
AlphaLeastNewest(m, H, u, p1) ==
    SetMax({m.alphacon1[H]} \cup
           {CutLhs(m.cuts[n][H], u, p1) :
               n \in {j \in DOMAIN m.cuts : \A q \in DOMAIN m.cuts : q <= j}})

\* least alpha[H] allowed by alphacon1 and by every cut of model m
AlphaLeast(m, H, u, p1) ==
    SetMax({m.alphacon1[H]} \cup
           {CutLhs(m.cuts[n][H], u, p1) : n \in DOMAIN m.cuts})

\* the summand of master_obj for hour H at the least feasible alpha
MasterCost(m, H, u, p1) == c1*u + l1*p1 + AlphaLeast(m, H, u, p1)

\* alphacon1 and the cuts of hour H as lines <<value at p1 = 0, slope in p1>>
CutLines(m, H, u) ==
    {<<m.alphacon1[H], 0>>} \cup
    {<<CutLhs(m.cuts[n][H], u, 0),
       CutLhs(m.cuts[n][H], u, 1) - CutLhs(m.cuts[n][H], u, 0)>> :
        n \in DOMAIN m.cuts}

\* MasterCost is convex and piecewise linear in p1, so on the grid its least
\* value, and both ends of the interval where it is taken, lie at 0 or next
\* to a crossing of two lines
Breakpoints(m, H, u) ==
    LET lines == CutLines(m, H, u)
        cross == {(b[1] - a[1]) \div (a[2] - b[2]) :
                     <<a, b>> \in {c \in lines \X lines : c[1][2] > c[2][2]}}
    IN  {q \in {0} \cup cross \cup {d + 1 : d \in cross} : q \in 0..P1Bound}

\* optimal (u, p1) of hour H: the master problem is separable in the hours
\* (the objective and every constraint are indexed by the hour)
MasterOptimal(m, H) ==
    LET cost == {<<MasterCost(m, H, c[1], c[2]), c>> :
                    c \in ({0} \X Breakpoints(m, H, 0))
                          \cup ({1} \X Breakpoints(m, H, 1))}
        best == SetMin({e[1] : e \in cost})
    IN  {e[2] : e \in {d \in cost : d[1] = best}}

\* helper.solve_model(opt, master); helper.get_results(master)
SolveMaster(m) ==
    LET x == [h \in HOURS |-> Tie(solver.master[h], MasterOptimal(m, h))]
    IN  [u |-> [h \in HOURS |-> x[h][1]],
         p1 |-> [h \in HOURS |-> x[h][2]],
         alpha |-> [h \in HOURS |-> AlphaLeast(m, h, x[h][1], x[h][2])]]

\* ------------------------------------------------------------------------
\* Sub model: con_load, con_max, dual_con1, dual_con2
\* ------------------------------------------------------------------------

\* pyo.ConcreteModel() with con_load, dual_con1, dual_con2 built from the
\* current pl and results_master (lines 185-245)
NewSub(load, rm) == [con_load |-> load, dual_con1 |-> rm.u, dual_con2 |-> rm.p1]

\* variant: the filter of the first loop (line 262) in every evaluation:
\* nothing is rebuilt for the first sample
reconstruct_con_load_unless_first(sb, load) ==
    IF load = SAMPLES[0] THEN sb ELSE [sb EXCEPT !.con_load = load]

\* variant: con_load keeps the right-hand side it was built with
reconstruct_con_load_skipped(sb, load) == sb

\* sub.con_load.reconstruct(): the rule reads the global pl
reconstruct_con_load(sb, load) == [sb EXCEPT !.con_load = load]

\* variant: the pinning constraints are not rebuilt
reconstruct_dual_con_skipped(sb, rm) == sb

\* sub.dual_con1.reconstruct(); sub.dual_con2.reconstruct(): the rules read
\* the global results_master
reconstruct_dual_con(sb, rm) ==
    [sb EXCEPT !.dual_con1 = rm.u, !.dual_con2 = rm.p1]

\* variant: con_load is missing
SubFeasibleNoLoad(sb, H) ==
    {x \in (0..MaxSampleLoad) \X (0..MaxSampleLoad) :
        x[1] <= pmax * sb.dual_con1[H]}

\* feasible (pg, p2) of hour H; u and p1 are pinned by dual_con1, dual_con2
SubFeasible(sb, H) ==
    {x \in (0..MaxSampleLoad) \X (0..MaxSampleLoad) :
        /\ x[1] + sb.dual_con2[H] + x[2] >= sb.con_load[H]
        /\ x[1] <= pmax * sb.dual_con1[H]}

SubCost(x) == c2*x[1] + l2*x[2]

SubPrimal(sb, H) ==
    LET best == SetMin({SubCost(x) : x \in SubFeasible(sb, H)})
    IN  {x \in SubFeasible(sb, H) : SubCost(x) = best}

\* Dual program of hour H: lam is the multiplier of con_load, mu of con_max;
\* stationarity in pg and p2 gives lam - mu <= c2 and lam <= l2, in the free
\* variables u and p1 it gives dual_con1 = -pmax*mu and dual_con2 = -lam.
\* The solver returns a basic solution, one of the vertices of
\* {lam >= 0, mu >= 0, lam <= l2, lam - mu <= c2}.
SubDualFeasible ==
    {<<0, 0>>,
     <<IF c2 <= l2 THEN c2 ELSE l2, 0>>,
     <<l2, IF l2 >= c2 THEN l2 - c2 ELSE 0>>}

SubDualValue(sb, H, y) ==
    y[1] * (sb.con_load[H] - sb.dual_con2[H]) - y[2] * pmax * sb.dual_con1[H]

SubDual(sb, H) ==
    LET best == SetMax({SubDualValue(sb, H, y) : y \in SubDualFeasible})
    IN  {y \in SubDualFeasible : SubDualValue(sb, H, y) = best}

\* helper.solve_model(opt, sub); helper.get_results(sub, dual=True)
SolveSub(sb) ==
    LET x == [h \in HOURS |-> Tie(solver.sub[h], SubPrimal(sb, h))]
        y == [h \in HOURS |-> Tie(solver.sub[h], SubDual(sb, h))]
    IN  [u |-> sb.dual_con1, p1 |-> sb.dual_con2,
         pg |-> [h \in HOURS |-> x[h][1]], p2 |-> [h \in HOURS |-> x[h][2]],
         dual_con1 |-> [h \in HOURS |-> -pmax * y[h][2]],
         dual_con2 |-> [h \in HOURS |-> -y[h][1]]]

\* ------------------------------------------------------------------------
\* Initial states
\* ------------------------------------------------------------------------

\* alpha down, in the cost unit of the explored instances
AlphaDown == -5

\* the price lists of lines 49 and 53, shortened to two and one price points
SensitivityPrices == <<1, 3>>

SinglePrice == <<3>>

None == <<>>

\* the Python variables that are not yet assigned when the price loop starts
Unassigned ==
    /\ k = 1
    /\ master = None
    /\ results_master = None
    /\ sub = None
    /\ pl = None
    /\ results_sub = None
    /\ i = 0
    /\ iteration = 0
    /\ converged = FALSE
    /\ upper_bound = 0
    /\ lower_bound = 0
    /\ bounds_difference = <<>>
    /\ objective_values = <<>>
    /\ lower_bounds = <<>>
    /\ pc = "start"
    /\ loaded = [master |-> None, sub |-> None, has_sub |-> FALSE]
    /\ hist = [cut_sub |-> None, cut_master |-> None, master_solves |-> 0,
               solved_at |-> None, failed |-> FALSE, calls |-> <<>>]
    /\ files = None
    /\ euc = None

\* np.random.seed(seed): the generator is a linear congruential one with 16
\* states, started from the seed
RngSeed(seed) == seed % 16

RngNext(x) == (5*x + 3) % 16

RECURSIVE RngAt(_, _)
\* state of the generator after j draws
RngAt(seed, j) == IF j = 0 THEN RngSeed(seed) ELSE RngNext(RngAt(seed, j - 1))

\* one draw around the mean value: the deviation is bounded by MaxDev, and
\* a mean of 0 has variance 0 (cov_pl is diag(values/3))
Draw(value, x) == IF value = 0 THEN 0 ELSE value + (x % (2*MaxDev + 1)) - MaxDev

\* variant: the generator is not seeded, the draws continue from its state
get_monte_carlo_samples_unseeded(values, samples, seed) ==
    [s \in 0..(samples - 1) |->
        [h \in DOMAIN values |->
            Draw(values[h],
                 RngAt(np_random, s * Cardinality(DOMAIN values) + h + 1))]]

\* helper.get_monte_carlo_samples(LOADS, samples=sample_size, seed=seed):
\* row s, hour h is draw number s*len(values) + h
get_monte_carlo_samples(values, samples, seed) ==
    [s \in 0..(samples - 1) |->
        [h \in DOMAIN values |->
            Draw(values[h], RngAt(seed, s * Cardinality(DOMAIN values) + h + 1))]]

\* prices are multiples of the number of scenarios, so that the divisions
\* by sample_size are exact on the money grid
Instances ==
    /\ \E n \in 1..MaxSamples, hrs \in 1..MaxHours, seed \in 0..MaxSeed :
          /\ \E LOADS \in [0..(hrs-1) -> 1..MaxLoad] :
                SAMPLES = get_monte_carlo_samples(LOADS, n, seed)
          /\ np_random = RngAt(seed, n * hrs)
          /\ c1 \in {0, n}
          /\ c2 = n
          /\ l1 = 2*n
          /\ l2s \in {[j \in 1..Len(q) |-> n * q[j]] :
                        q \in {SinglePrice, SensitivityPrices}}
          /\ alpha_down = n * AlphaDown
          /\ epsilon \in {0, n}
          /\ \E rm \in TieRules, rs \in TieRules :
                solver = [master |-> [h \in 0..(hrs-1) |-> rm],
                          sub |-> [h \in 0..(hrs-1) |-> rs]]
    /\ pmax = 1
    /\ Unassigned

\* the options as the script sets them (csv_output = False, line 21); the
\* solver never fails
Init == Instances /\ csv_output = FALSE /\ faults = 0

\* the solver may fail
InitFail == Instances /\ csv_output = FALSE /\ faults = MaxFaults

\* csv_output switched on
InitExport == Instances /\ csv_output = TRUE /\ faults = 0

\* The end-to-end instance: 4 hours, load 10 kWh, pmax 5 kWh, fixed cost 0,
\* fuel 0.1, forward 0.2, real time 0.3 $/kWh, one scenario equal to the
\* nominal load, alpha down -500 $.  The energy grid is 1/3 kWh and the money
\* grid 1/30 $ (load 30, pmax 15, prices 1, 2, 3, alpha down -15000);
\* epsilon (0.0001 $) is below one money unit.
ToyInit ==
    /\ SAMPLES = (0 :> [h \in 0..3 |-> 30])
    /\ c1 = 0
    /\ c2 = 1
    /\ l1 = 2
    /\ l2s = <<3>>
    /\ alpha_down = -15000
    /\ epsilon = 0
    /\ pmax = 15
    /\ solver \in [master : [0..3 -> TieRules],
                    sub : [0..3 -> TieRules]]
    /\ np_random = RngAt(0, 4)
    /\ csv_output = FALSE
    /\ faults = 0
    /\ Unassigned

\* ------------------------------------------------------------------------
\* The script, one action per block
\* ------------------------------------------------------------------------

\* variant: the loop also stops after one pass
WhileConditionCapped == ~converged /\ iteration < 1

\* while not converged (line 290)
WhileCondition == ~converged

\* lines 97-256: helper lists, master model, first master solve, sub model
Initialization ==
    /\ pc = "start"
    /\ bounds_difference' = <<>>
    /\ objective_values' = <<>>
    /\ lower_bounds' = <<>>
    /\ master' = NewMaster
    /\ iteration' = 0
    /\ \E rm \in {SolveMaster(NewMaster)} :
          /\ loaded' = [master |-> rm, sub |-> None, has_sub |-> FALSE]
          /\ results_master' = rm
          /\ sub' = NewSub(SAMPLES[0], rm)
    /\ pl' = SAMPLES[0]
    /\ results_sub' = None
    /\ i' = 0
    /\ hist' = [hist EXCEPT !.master_solves = @ + 1, !.solved_at = None]
    /\ pc' = "init_loop"
    /\ UNCHANGED <<params, files, euc, k, converged, upper_bound, lower_bound, faults>>

\* lines 258-269: one pass of the first loop over the samples
InitSubStep ==
    /\ pc = "init_loop"
    /\ \E load \in {IF i # 0 THEN SAMPLES[i] ELSE pl} :
          /\ pl' = load
          /\ \E sb \in {IF i # 0 THEN reconstruct_con_load(sub, load) ELSE sub} :
                /\ sub' = sb
                /\ \E r \in {SolveSub(sb)} :
                      /\ loaded' = [loaded EXCEPT !.sub = r, !.has_sub = TRUE]
                      /\ results_sub' = (i :> r) @@ results_sub
    /\ hist' = [hist EXCEPT !.solved_at = (i :> hist.master_solves) @@ @]
    /\ i' = i + 1
    /\ pc' = IF i + 1 = sample_size THEN "init_check" ELSE "init_loop"
    /\ UNCHANGED <<params, files, euc, k, master, results_master, iteration, converged,
                   upper_bound, lower_bound, bounds_difference,
                   objective_values, lower_bounds, faults>>

\* lines 272-287 and 333-348: convergence check and bookkeeping
Check ==
    \E res \in {convergence_check(results_master, results_sub, SAMPLES,
                                  epsilon)} :
        /\ converged' = res.converged
        /\ upper_bound' = res.upper_bound
        /\ lower_bound' = res.lower_bound
        /\ bounds_difference' =
              Append(bounds_difference, Abs(res.upper_bound - res.lower_bound))
        /\ objective_values' = Append(objective_values, res.upper_bound)
        /\ lower_bounds' = Append(lower_bounds, res.lower_bound)
        /\ pc' = "while"
        /\ UNCHANGED <<params, files, euc, k, master, results_master, sub, pl,
                       results_sub, i, iteration, loaded, faults, hist>>

InitCheck == pc = "init_check" /\ Check

IterCheck == pc = "iter_check" /\ Check

\* lines 290-320: add cut_<iteration>, solve the master again, update the
\* pinning constraints
LoopBody ==
    /\ pc = "while"
    /\ WhileCondition
    /\ iteration' = iteration + 1
    /\ \E m \in {setattr(master, iteration + 1,
                         [H \in HOURS |-> cut(results_sub, results_master, H)])} :
          /\ master' = m
          /\ \E rm \in {SolveMaster(m)} :
                /\ loaded' = [loaded EXCEPT !.master = rm]
                /\ results_master' = rm
                /\ sub' = reconstruct_dual_con(sub, rm)
    /\ results_sub' = None
    /\ i' = 0
    /\ hist' = [hist EXCEPT !.cut_sub = results_sub,
                            !.cut_master = results_master,
                            !.master_solves = @ + 1, !.solved_at = None]
    /\ pc' = "iter_loop"
    /\ UNCHANGED <<params, files, euc, k, pl, converged, upper_bound, lower_bound,
                   bounds_difference, objective_values, lower_bounds, faults>>

\* lines 322-331: one pass of the loop over the samples
IterSubStep ==
    /\ pc = "iter_loop"
    /\ pl' = SAMPLES[i]
    /\ \E sb \in {reconstruct_con_load(sub, SAMPLES[i])} :
          /\ sub' = sb
          /\ \E r \in {SolveSub(sb)} :
                /\ loaded' = [loaded EXCEPT !.sub = r, !.has_sub = TRUE]
                /\ results_sub' = (i :> r) @@ results_sub
    /\ hist' = [hist EXCEPT !.solved_at = (i :> hist.master_solves) @@ @]
    /\ i' = i + 1
    /\ pc' = IF i + 1 = sample_size THEN "iter_check" ELSE "iter_loop"
    /\ UNCHANGED <<params, files, euc, k, master, results_master, iteration, converged,
                   upper_bound, lower_bound, bounds_difference,
                   objective_values, lower_bounds, faults>>

\* line 290: the loop condition is false, the loop is left
LoopExit ==
    /\ pc = "while"
    /\ ~WhileCondition
    /\ pc' = "results"
    /\ UNCHANGED <<params, files, euc, k, master, results_master, sub, pl, results_sub, i,
                   iteration, converged, upper_bound, lower_bound,
                   bounds_difference, objective_values, lower_bounds, loaded,
                   faults, hist>>

\* sensitivity_analysis (line 18) decides between the two price lists
sensitivity_analysis == Len(l2s) > 1

\* the part of the csv file names that tells the runs apart (lines 372-377):
\* the price in a sensitivity analysis, nothing (0) otherwise
prefix == IF sensitivity_analysis THEN l2 ELSE 0

\* np.array(x) of a scalar x: one value, whatever list x was appended to
np_array(x, history) == <<x>>

\* np.array(content).tofile(name, sep=','), json.dump, to_csv: the file is
\* created or overwritten
tofile(fs, name, content) == (name :> content) @@ fs

\* lines 356-360: the two json files of the price point
JsonDump(fs) ==
    tofile(tofile(fs, <<"results_sub", l2>>, results_sub),
           <<"results_master", l2>>, results_master)

\* lines 379-397: the four csv files of the price point
CsvExport(fs) ==
    IF csv_output
    THEN tofile(tofile(tofile(tofile(fs,
            <<"objective_values", prefix>>, objective_values),
            <<"upper_bounds", prefix>>, np_array(upper_bound, objective_values)),
            <<"lower_bounds", prefix>>, np_array(lower_bound, lower_bounds)),
            <<"bounds_differences", prefix>>, bounds_difference)
    ELSE fs

\* lines 406-412, after the last price point: the prices the times were
\* taken for, and the samples
FinalExport(fs) ==
    IF csv_output
    THEN tofile(tofile(fs, <<"computation_times", 0>>, l2s),
                <<"samples", 0>>, SAMPLES)
    ELSE fs

\* lines 354-412: results are written; the next price point or the end
Results ==
    /\ pc = "results"
    /\ IF k < Len(l2s)
          THEN /\ k' = k + 1
               /\ pc' = "start"
               /\ files' = CsvExport(JsonDump(files))
          ELSE /\ k' = k
               /\ pc' = "done"
               /\ files' = FinalExport(CsvExport(JsonDump(files)))
    /\ UNCHANGED <<params, master, results_master, sub, pl, results_sub, i,
                   iteration, converged, upper_bound, lower_bound,
                   bounds_difference, objective_values, lower_bounds, loaded,
                   faults, hist, euc>>

Next ==
    \/ Initialization
    \/ InitSubStep
    \/ InitCheck
    \/ LoopBody
    \/ IterSubStep
    \/ IterCheck
    \/ LoopExit
    \/ Results

Spec == Init /\ [][Next]_vars

SpecToy == ToyInit /\ [][Next]_vars

SpecExport == InitExport /\ [][Next]_vars

\* ------------------------------------------------------------------------
\* The scenarios of a round evaluated in any order: each evaluation is the
\* body of the loop of lines 322-331 (helper.solve_sample), for a scenario
\* that has no result yet.
\* ------------------------------------------------------------------------
EvalAnyOrder ==
    /\ pc \in {"init_loop", "iter_loop"}
    /\ \E s \in SCEN \ DOMAIN results_sub :
          /\ pl' = SAMPLES[s]
          /\ i' = s
          /\ hist' = [hist EXCEPT !.solved_at = (s :> hist.master_solves) @@ @]
          /\ \E sb \in {reconstruct_con_load(sub, SAMPLES[s])} :
                /\ sub' = sb
                /\ \E r \in {SolveSub(sb)} :
                      /\ loaded' = [loaded EXCEPT !.sub = r, !.has_sub = TRUE]
                      /\ results_sub' = (s :> r) @@ results_sub
          /\ pc' = IF DOMAIN results_sub \cup {s} = SCEN
                      THEN (IF pc = "init_loop" THEN "init_check"
                                                ELSE "iter_check")
                      ELSE pc
    /\ UNCHANGED <<params, files, euc, k, master, results_master, iteration,
                   converged, upper_bound, lower_bound, bounds_difference,
                   objective_values, lower_bounds, faults>>

NextAnyOrder ==
    \/ Initialization
    \/ EvalAnyOrder
    \/ InitCheck
    \/ LoopBody
    \/ IterCheck
    \/ LoopExit
    \/ Results

\* the single price list, a positive fixed cost and the tightest tolerance:
\* the rounds of one price point are what the order matters for
InitAnyOrder == Init /\ ~sensitivity_analysis /\ c1 > 0 /\ epsilon = 0

SpecAnyOrder == InitAnyOrder /\ [][NextAnyOrder]_vars

\* ------------------------------------------------------------------------
\* Solver failures.  helper.solve_model calls solver.solve(model) and drops
\* the returned status (utilities.py line 33); the script has no handler.
\* The solver interface either raises, or reports the failure in the dropped
\* status and loads no solution, so that the model keeps the values of its
\* last successful solve.
\* ------------------------------------------------------------------------
Outcomes == {"raises", "returns"}

\* solve_model(opt, master) fails at line 175 or at line 312
MasterSolveFails ==
    /\ faults > 0
    /\ faults' = faults - 1
    /\ \/ /\ pc = "start"
          \* no solution was ever loaded: get_results gives None values and
          \* building dual_con1 from them stops the script
          /\ bounds_difference' = <<>>
          /\ objective_values' = <<>>
          /\ lower_bounds' = <<>>
          /\ master' = NewMaster
          /\ iteration' = 0
          /\ loaded' = [master |-> None, sub |-> None, has_sub |-> FALSE]
          /\ pc' = "error"
          /\ UNCHANGED <<results_master, sub, results_sub, i>>
       \/ /\ pc = "while"
          /\ WhileCondition
          /\ iteration' = iteration + 1
          /\ master' = setattr(master, iteration + 1,
                          [H \in HOURS |-> cut(results_sub, results_master, H)])
          /\ \E out \in Outcomes :
                IF out = "raises"
                THEN /\ pc' = "error"
                     /\ UNCHANGED <<results_master, sub, results_sub, i>>
                ELSE /\ results_master' = loaded.master
                     /\ sub' = reconstruct_dual_con(sub, loaded.master)
                     /\ results_sub' = None
                     /\ i' = 0
                     /\ pc' = "iter_loop"
          /\ UNCHANGED <<bounds_difference, objective_values, lower_bounds,
                         loaded>>
    /\ hist' = [hist EXCEPT !.failed = TRUE]
    /\ UNCHANGED <<params, files, euc, k, pl, converged, upper_bound, lower_bound>>

\* solve_model(opt, sub) fails at line 268 or at line 330
SubSolveFails ==
    /\ faults > 0
    /\ faults' = faults - 1
    /\ pc \in {"init_loop", "iter_loop"}
    /\ \E load \in {IF pc = "init_loop" /\ i = 0 THEN pl ELSE SAMPLES[i]} :
          /\ pl' = load
          /\ sub' = reconstruct_con_load(sub, load)
    /\ \E out \in Outcomes :
          IF out = "returns" /\ loaded.has_sub
          THEN /\ results_sub' = (i :> loaded.sub) @@ results_sub
               /\ i' = i + 1
               /\ pc' = IF i + 1 = sample_size
                           THEN (IF pc = "init_loop" THEN "init_check"
                                                     ELSE "iter_check")
                           ELSE pc
          ELSE \* raised, or get_results finds no dual values to read
               /\ pc' = "error"
               /\ UNCHANGED <<results_sub, i>>
    /\ hist' = [hist EXCEPT !.failed = TRUE]
    /\ UNCHANGED <<params, files, euc, k, master, results_master, iteration, converged,
                   upper_bound, lower_bound, bounds_difference,
                   objective_values, lower_bounds, loaded>>

NextFail ==
    \/ Next
    \/ MasterSolveFails
    \/ SubSolveFails

SpecFail == InitFail /\ [][NextFail]_vars

\* ------------------------------------------------------------------------
\* convergence_check on synthetic inputs
\* ------------------------------------------------------------------------

\* results with values from small sets, not produced by the solver
CheckInputs ==
    /\ \E n \in 1..2 :
          /\ SAMPLES = [s \in 0..(n-1) |-> (0 :> 1)]
          /\ c1 = n /\ c2 = n /\ l1 = n /\ l2s = <<n>>
          /\ alpha_down = n * AlphaDown
          /\ epsilon \in {0, n, 2*n}
          /\ results_master \in [u : [{0} -> {0, 1}], p1 : [{0} -> {0, 1}],
                                 alpha : [{0} -> {-n, 0, n, 2*n}]]
          /\ results_sub \in [0..(n-1) ->
                [u : [{0} -> {0, 1}], p1 : [{0} -> {0, 1}],
                 pg : [{0} -> {0, 1}], p2 : [{0} -> {0, 1}],
                 dual_con1 : [{0} -> {0}], dual_con2 : [{0} -> {0}]]]
    /\ pmax = 1
    /\ solver = [master |-> (0 :> "lo"), sub |-> (0 :> "lo")]
    /\ np_random = RngAt(0, 1)
    /\ csv_output = FALSE
    /\ faults = 0
    /\ k = 1
    /\ master = None
    /\ sub = None
    /\ pl = None
    /\ i = 0
    /\ iteration = 0
    /\ converged = FALSE
    /\ upper_bound = 0
    /\ lower_bound = 0
    /\ bounds_difference = <<>>
    /\ objective_values = <<>>
    /\ lower_bounds = <<>>
    /\ pc = "call"
    /\ loaded = [master |-> None, sub |-> None, has_sub |-> FALSE]
    /\ hist = [cut_sub |-> None, cut_master |-> None, master_solves |-> 0,
               solved_at |-> None, failed |-> FALSE, calls |-> <<>>]
    /\ files = None
    /\ euc = None

\* one call of helper.convergence_check
CallCheck == pc = "call" /\ Check

SpecCheck == CheckInputs /\ [][CallCheck]_vars

\* a further call of helper.convergence_check with the same arguments
CallCheckAgain ==
    /\ pc = "while"
    /\ Len(lower_bounds) < MaxCalls
    /\ Check

NextCheck ==
    \/ CallCheck
    \/ CallCheckAgain

SpecCheckTwice == CheckInputs /\ [][NextCheck]_vars

\* ------------------------------------------------------------------------
\* get_monte_carlo_samples called twice, with other draws in between
\* ------------------------------------------------------------------------

\* the process starts with the generator in any state
SamplerInit ==
    /\ np_random \in 0..15
    /\ SAMPLES = None
    /\ c1 = 0 /\ c2 = 0 /\ l1 = 0 /\ l2s = <<>>
    /\ alpha_down = 0
    /\ epsilon = 0
    /\ pmax = 0
    /\ solver = None
    /\ csv_output = FALSE
    /\ faults = 0
    /\ k = 1
    /\ master = None
    /\ results_master = None
    /\ sub = None
    /\ pl = None
    /\ results_sub = None
    /\ i = 0
    /\ iteration = 0
    /\ converged = FALSE
    /\ upper_bound = 0
    /\ lower_bound = 0
    /\ bounds_difference = <<>>
    /\ objective_values = <<>>
    /\ lower_bounds = <<>>
    /\ pc = "sampler"
    /\ loaded = [master |-> None, sub |-> None, has_sub |-> FALSE]
    /\ hist = [cut_sub |-> None, cut_master |-> None, master_solves |-> 0,
               solved_at |-> None, failed |-> FALSE, calls |-> <<>>]
    /\ files = None
    /\ euc = None

\* SAMPLES = helper.get_monte_carlo_samples(values, samples, seed): the call
\* seeds the generator and leaves it after samples * len(values) draws
Sample(values, samples, seed) ==
    /\ SAMPLES' = get_monte_carlo_samples(values, samples, seed)
    /\ np_random' = RngAt(seed, samples * Cardinality(DOMAIN values))
    /\ hist' = [hist EXCEPT !.calls =
                   Append(@, [values |-> values, samples |-> samples,
                              seed |-> seed, state |-> np_random,
                              result |-> get_monte_carlo_samples(values,
                                                                samples, seed)])]
    /\ UNCHANGED <<c1, c2, l1, pmax, alpha_down, epsilon, l2s, solver, k,
                   master, results_master, sub, pl, results_sub, i, iteration,
                   converged, upper_bound, lower_bound, bounds_difference,
                   objective_values, lower_bounds, pc, loaded, faults,
                   csv_output, files, euc>>

\* the first call, with any arguments
FirstCall ==
    /\ pc = "sampler"
    /\ hist.calls = <<>>
    /\ \E n \in 1..MaxSamples, hrs \in 1..MaxHours, seed \in 0..MaxSeed :
          \E LOADS \in [0..(hrs-1) -> 1..MaxLoad] : Sample(LOADS, n, seed)

\* any other use of np.random between the two calls
OtherDraw ==
    /\ pc = "sampler"
    /\ Len(hist.calls) = 1
    /\ np_random' = RngNext(np_random)
    /\ UNCHANGED <<c1, c2, l1, pmax, alpha_down, epsilon, l2s, SAMPLES, solver,
                   k, master, results_master, sub, pl, results_sub, i,
                   iteration, converged, upper_bound, lower_bound,
                   bounds_difference, objective_values, lower_bounds, pc,
                   loaded, faults, hist, csv_output, files, euc>>

\* the second call, with the arguments of the first
SecondCall ==
    /\ pc = "sampler"
    /\ Len(hist.calls) = 1
    /\ Sample(hist.calls[1].values, hist.calls[1].samples, hist.calls[1].seed)

NextSampler ==
    \/ FirstCall
    \/ OtherDraw
    \/ SecondCall

SpecSampler == SamplerInit /\ [][NextSampler]_vars

\* ------------------------------------------------------------------------
\* Milestone_1/2_src/EUC_model.py.  All of its variables are fields of euc;
\* euc.names holds the names the loop has bound so far.
\* Energy is counted in units of 10 kW, money in units of 10^-5 $ (prices
\* per unit of energy are 10^6 times the $/kWh values).
\* ------------------------------------------------------------------------

\* model.G
EucG == {0, 1}

\* model.H
EucH == DOMAIN euc.pl

\* lmbdas (lines 26-29): [21.97/100], or np.arange(5,80,10)*0.01
Lmbdas(sens) ==
    IF sens THEN [j \in 1..8 |-> (5 + 10 * (j - 1)) * 10000] ELSE <<219700>>

lamda == euc.lmbdas[euc.pos]

\* round(lamda, 4): the nearest multiple of 10^-4 $/kWh (100 units), a tie
\* goes to the even one
round4(x) ==
    LET q == x \div 100
        r == x % 100
    IN  IF r < 50 THEN 100 * q
        ELSE IF r > 50 THEN 100 * (q + 1)
        ELSE IF q % 2 = 0 THEN 100 * q ELSE 100 * (q + 1)

\* the summand of model.OBJ for hour h, with y = pg^2 (hvc)
EucCost(x) ==
    lamda * x.pn
    + SumOver([g \in EucG |->
                 (euc.c2[g] * x.pg[g] * x.pg[g] + euc.c1[g] * x.pg[g]
                  + euc.c[g]) * x.u[g]], EucG)

\* the values of hour h allowed by loadc, minc and maxc
EucFeasible(h) ==
    {[pn |-> euc.pl[h] - SumOver(pg, EucG), pg |-> pg, u |-> u] :
        <<u, pg>> \in
           {c \in [EucG -> {0, 1}] \X [EucG -> 0..SetMax({euc.pmax[g] : g \in EucG})] :
               \A g \in EucG : /\ c[1][g] * euc.pmin[g] <= c[2][g]
                                /\ c[1][g] * euc.pmax[g] >= c[2][g]}}

\* the optimal values of hour h (objective and constraints are separable)
EucOptimal(h) ==
    LET best == SetMin({EucCost(x) : x \in EucFeasible(h)})
    IN  {x \in EucFeasible(h) : EucCost(x) = best}

\* the index of model.pg and model.u, in the order of the loop of line 163
EucIndex ==
    [j \in 1..(2 * Cardinality(EucH)) |-> <<(j - 1) \div 2, (j - 1) % 2>>]

\* the first hours of pl (line 32), in units of 10 kW
EucInit ==
    /\ \E hrs \in 1..MaxHours, sens \in BOOLEAN, csv \in BOOLEAN :
          \E loads \in [0..(hrs - 1) -> 1..MaxLoad] :
             euc = [sensitivity_analysis |-> sens,
                    csv_output |-> csv,
                    lmbdas |-> Lmbdas(sens),
                    pl |-> loads,
                    c2 |-> (0 :> 12000 @@ 1 :> 11200),
                    c1 |-> (0 :> 128000 @@ 1 :> 532000),
                    c |-> (0 :> 2 @@ 1 :> 1),
                    pmin |-> (0 :> 0 @@ 1 :> 0),
                    pmax |-> (0 :> 2 @@ 1 :> 4),
                    objective_values |-> <<>>,
                    net_costs |-> <<>>,
                    fuel_costs |-> (0 :> <<>> @@ 1 :> <<>>),
                    pos |-> 1,
                    model |-> None,
                    data_dic_retailer |-> None,
                    data_dic_generator |-> None,
                    names |-> {},
                    files |-> <<>>,
                    pc |-> "model"]
    /\ np_random = 0
    /\ SAMPLES = None
    /\ c1 = 0 /\ c2 = 0 /\ l1 = 0 /\ l2s = <<>>
    /\ alpha_down = 0
    /\ epsilon = 0
    /\ pmax = 0
    /\ solver = None
    /\ csv_output = FALSE
    /\ faults = 0
    /\ k = 1
    /\ master = None
    /\ results_master = None
    /\ sub = None
    /\ pl = None
    /\ results_sub = None
    /\ i = 0
    /\ iteration = 0
    /\ converged = FALSE
    /\ upper_bound = 0
    /\ lower_bound = 0
    /\ bounds_difference = <<>>
    /\ objective_values = <<>>
    /\ lower_bounds = <<>>
    /\ pc = "other script"
    /\ loaded = [master |-> None, sub |-> None, has_sub |-> FALSE]
    /\ hist = [cut_sub |-> None, cut_master |-> None, master_solves |-> 0,
               solved_at |-> None, failed |-> FALSE, calls |-> <<>>]
    /\ files = None

\* the variables of L_shape_method.py, which this script does not have
EucFrame ==
    UNCHANGED <<c1, c2, l1, pmax, alpha_down, epsilon, l2s, SAMPLES, k, master,
                results_master, sub, pl, results_sub, i, iteration, converged,
                upper_bound, lower_bound, bounds_difference, objective_values,
                lower_bounds, pc, solver, loaded, faults, hist, np_random,
                csv_output, files>>

\* lines 61-140: the model of the price is built and solved, the solution
\* is loaded
EucSolve ==
    /\ euc.pc = "model"
    /\ \E sol \in [EucH -> UNION {EucOptimal(h) : h \in EucH}] :
          /\ \A h \in EucH : sol[h] \in EucOptimal(h)
          /\ euc' = [euc EXCEPT !.model = sol, !.pc = "collect",
                                !.names = @ \cup {"model"}]
    /\ EucFrame

\* lines 150-181: if csv_output, the two dictionaries are created and filled
EucCollect ==
    /\ euc.pc = "collect"
    /\ IF euc.csv_output
       THEN euc' = [euc EXCEPT
                 !.data_dic_retailer =
                     [Hour |-> [h \in EucH |-> h],
                      ImportExport |-> [h \in EucH |-> euc.model[h].pn]],
                 !.data_dic_generator =
                     [Hour |-> [j \in DOMAIN EucIndex |-> EucIndex[j][1]],
                      Generator |-> [j \in DOMAIN EucIndex |-> EucIndex[j][2]],
                      Generation |-> [j \in DOMAIN EucIndex |->
                          euc.model[EucIndex[j][1]].pg[EucIndex[j][2]]],
                      UnitCommitment |-> [j \in DOMAIN EucIndex |->
                          euc.model[EucIndex[j][1]].u[EucIndex[j][2]]]],
                 !.names = @ \cup {"data_dic_retailer", "data_dic_generator"},
                 !.pc = "export"]
       ELSE euc' = [euc EXCEPT !.pc = "export"]
    /\ EucFrame

\* lines 183-197: the data frames are made from the dictionaries and written;
\* reading a dictionary that was never created raises NameError
EucExport ==
    /\ euc.pc = "export"
    /\ IF ~({"data_dic_retailer", "data_dic_generator"} \subseteq euc.names)
       THEN euc' = [euc EXCEPT !.pc = "error"]
       ELSE euc' = [euc EXCEPT
                 !.files = tofile(tofile(@,
                     <<"retailer_lambda", round4(lamda)>>, euc.data_dic_retailer),
                     <<"generator_lambda", round4(lamda)>>, euc.data_dic_generator),
                 !.pc = "costs"]
    /\ EucFrame

\* the column Costs of line 205 for generator g, summed over the rows of g
EucFuelCosts(g) ==
    SumOver([h \in EucH |->
                (euc.c2[g] * euc.model[h].pg[g] * euc.model[h].pg[g]
                 + euc.c1[g] * euc.model[h].pg[g] + euc.c[g])
                * euc.model[h].u[g]], EucH)

\* lines 199-214: objective value, net costs and fuel costs of the price;
\* the next price or the end of the loop
EucCosts ==
    /\ euc.pc = "costs"
    /\ euc' = [euc EXCEPT
                 !.objective_values =
                     Append(@, SumOver([h \in EucH |-> EucCost(euc.model[h])],
                                       EucH)),
                 !.net_costs =
                     Append(@, SumOver(euc.data_dic_retailer.ImportExport, EucH)
                               * lamda),
                 !.fuel_costs = [g \in EucG |-> Append(@[g], EucFuelCosts(g))],
                 !.pos = IF @ < Len(euc.lmbdas) THEN @ + 1 ELSE @,
                 !.pc = IF euc.pos < Len(euc.lmbdas) THEN "model" ELSE "final"]
    /\ EucFrame

\* the part of the names of the four files (lines 216-219)
EucPrefix == IF euc.sensitivity_analysis THEN 1 ELSE 0

\* lines 216-237: the four files over all prices
EucFinal ==
    /\ euc.pc = "final"
    /\ euc' = [euc EXCEPT
                 !.files = tofile(tofile(tofile(tofile(@,
                     <<"objective_values", EucPrefix>>, euc.objective_values),
                     <<"fuel_costs_generator1", EucPrefix>>, euc.fuel_costs[0]),
                     <<"fuel_costs_generator2", EucPrefix>>, euc.fuel_costs[1]),
                     <<"net_costs", EucPrefix>>, euc.net_costs),
                 !.pc = "done"]
    /\ EucFrame

NextEuc ==
    \/ EucSolve
    \/ EucCollect
    \/ EucExport
    \/ EucCosts
    \/ EucFinal

SpecEuc == EucInit /\ [][NextEuc]_vars

\* ------------------------------------------------------------------------
\* Properties
\* ------------------------------------------------------------------------

\* C1: convergence_check returns converged = TRUE exactly if
\* upper_bound - lower_bound <= epsilon, for all bounds and every epsilon.
C1_ConvergedIff ==
    pc = "while" => (converged <=> upper_bound - lower_bound <= epsilon)

\* a call where the gap equals a positive epsilon
C1_Witness ==
    /\ pc = "while"
    /\ epsilon > 0
    /\ upper_bound - lower_bound = epsilon
    /\ converged

\* C2: the lower bounds recorded for one price point never decrease.
C2_LowerBoundsNonDecreasing ==
    \A j \in 1..(Len(lower_bounds) - 1) : lower_bounds[j] <= lower_bounds[j + 1]

\* three checks with strictly rising lower bounds
C2_Witness ==
    /\ Len(lower_bounds) >= 3
    /\ lower_bounds[1] < lower_bounds[2]
    /\ lower_bounds[2] < lower_bounds[3]

\* C3: the results stage is reached only when the last convergence check
\* found upper_bound - lower_bound <= epsilon.
C3_ExitOnlyOnConvergence ==
    pc = "results" =>
        /\ converged
        /\ upper_bound - lower_bound <= epsilon
        /\ objective_values[Len(objective_values)]
             - lower_bounds[Len(lower_bounds)] <= epsilon

\* the loop was left after at least two cuts
C3_Witness == pc = "results" /\ iteration >= 2

\* C4 as stated: the toy instance needs at most 2 cuts.
C4_AtMostTwoIterations == iteration <= 2

\* C4 amended: the toy instance converges in at most 3 iterations, the check
\* after the third cut reports converged.
C4_AtMostThreeIterations ==
    /\ iteration <= 3
    /\ (pc = "while" /\ iteration = 3 => converged)

\* the toy run has left the loop after its third cut
C4_Witness == pc = "results" /\ iteration = 3 /\ converged

\* C5 as stated: every recorded sub problem solution meets the demand
\* balance with equality in every hour.
C5_BalanceEquality ==
    \A s \in DOMAIN results_sub : \A h \in HOURS :
        results_sub[s].pg[h] + results_sub[s].p1[h] + results_sub[s].p2[h]
          = SAMPLES[s][h]

\* C5 amended: the recorded solution covers the load in every hour, with
\* equality in the hours where the pinned forward purchase does not exceed
\* the load.
C5_BalanceCovered ==
    \A s \in DOMAIN results_sub : \A h \in HOURS :
        LET total == results_sub[s].pg[h] + results_sub[s].p1[h]
                       + results_sub[s].p2[h]
        IN  /\ total >= SAMPLES[s][h]
            /\ (results_sub[s].p1[h] <= SAMPLES[s][h] => total = SAMPLES[s][h])

\* one hour is over-covered by the forward purchase, another one is met
\* with equality by generation or real time purchase
C5_Witness ==
    /\ \E s \in DOMAIN results_sub : \E h \in HOURS :
          results_sub[s].p1[h] > SAMPLES[s][h]
    /\ \E s \in DOMAIN results_sub : \E h \in HOURS :
          /\ results_sub[s].pg[h] + results_sub[s].p2[h] > 0
          /\ results_sub[s].p1[h] > 0

\* the right-hand side of the cut of section 4.1 step 5, times N, from the
\* scenario results rs, each with the master values it was pinned to
CutFormula(rs, H, u, p1) ==
    SumOver([s \in SCEN |->
                c2*rs[s].pg[H] + l2*rs[s].p2[H]
                + rs[s].dual_con1[H]*(u - rs[s].u[H])
                + rs[s].dual_con2[H]*(p1 - rs[s].p1[H])], SCEN)

\* C6: the cut added at iteration k is the average over the scenarios of
\* cost plus dual weighted deviation, from the results of the evaluation
\* just before it and the master values those were pinned to.
C6_CutMatchesFormula ==
    (pc \in {"iter_loop", "iter_check", "while", "results"} /\ iteration >= 1) =>
        \A H \in HOURS : \A u \in {0, 1} : \A p1 \in {0, 1} :
            sample_size * CutLhs(master.cuts[iteration][H], u, p1)
              = CutFormula(hist.cut_sub, H, u, p1)

\* a cut from two scenarios with different results, pinned to a master
\* solution other than zero, with a dual value that is not zero
C6_Witness ==
    /\ pc = "iter_loop"
    /\ sample_size = 2
    /\ hist.cut_sub[0] # hist.cut_sub[1]
    /\ \E h \in HOURS : hist.cut_master.p1[h] > 0 /\ hist.cut_master.u[h] > 0
    /\ \E h \in HOURS : hist.cut_sub[1].dual_con2[h] # 0
    /\ \E h \in HOURS : hist.cut_sub[0].dual_con1[h] # 0

\* C7: a failed solve aborts the run of the price point.
C7_FailureAborts == hist.failed => pc = "error"

\* C8: upper_bound is the mean over the scenarios of their own total cost,
\* lower_bound the master objective of the current master solution.
C8_BoundsFormula ==
    pc = "while" =>
        /\ upper_bound * sample_size =
              SumOver([s \in SCEN |->
                  SumOver([h \in HOURS |->
                      c1*results_sub[s].u[h] + l1*results_sub[s].p1[h]
                      + c2*results_sub[s].pg[h] + l2*results_sub[s].p2[h]],
                      HOURS)], SCEN)
        /\ lower_bound =
              SumOver([h \in HOURS |->
                  c1*results_master.u[h] + l1*results_master.p1[h]
                  + results_master.alpha[h]], HOURS)

\* a check after a cut, over two scenarios with different costs
C8_Witness ==
    /\ pc = "while"
    /\ iteration >= 1
    /\ sample_size = 2
    /\ results_sub[0].p2 # results_sub[1].p2
    /\ \E h \in HOURS : results_master.alpha[h] > 0

\* C9: after k passes of the loop body the master carries cut_1 .. cut_k,
\* one constraint per hour each, and a pass leaves the earlier cuts and
\* alphacon1 as they were.
C9_CutsAccumulate ==
    [][/\ pc' \notin {"start", "error"} =>
            /\ DOMAIN master'.cuts = 1..iteration'
            /\ \A n \in DOMAIN master'.cuts : DOMAIN master'.cuts[n] = HOURS
            /\ master'.alphacon1 = [h \in HOURS |-> alpha_down]
       /\ pc = "while" /\ pc' = "iter_loop" =>
            /\ \A n \in DOMAIN master.cuts :
                  n \in DOMAIN master'.cuts /\ master'.cuts[n] = master.cuts[n]
            /\ master'.alphacon1 = master.alphacon1]_vars

\* two different cuts are in the master
C9_Witness ==
    /\ pc = "iter_loop"
    /\ iteration = 2
    /\ master.cuts[1] # master.cuts[2]

\* C10: at every convergence check results_sub holds one result per
\* scenario, each solved after the latest master solve and pinned to it.
C10_FreshResults ==
    pc \in {"init_check", "iter_check"} =>
        /\ DOMAIN results_sub = SCEN
        /\ DOMAIN hist.solved_at = SCEN
        /\ sub.dual_con1 = results_master.u
        /\ sub.dual_con2 = results_master.p1
        /\ \A s \in SCEN :
              /\ results_sub[s].u = results_master.u
              /\ results_sub[s].p1 = results_master.p1
              /\ hist.solved_at[s] = hist.master_solves

\* a check after the master solution has changed
C10_Witness ==
    /\ pc = "iter_check"
    /\ iteration >= 2
    /\ sample_size = 2
    /\ results_master.p1 # hist.cut_master.p1

Exported == IF pc = "done" THEN k ELSE k - 1

\* the file name part of that price point
ExportedPrefix == IF sensitivity_analysis THEN l2s[Exported] ELSE 0

\* C13: after the run of a price point with k cuts the histories of the
\* upper and of the lower bound have k + 1 entries, and the exported files
\* upper_bounds and lower_bounds hold these histories.
C13_TrajectoriesExported ==
    (csv_output /\ pc \in {"start", "done"} /\ Exported >= 1) =>
        /\ Len(objective_values) = iteration + 1
        /\ Len(lower_bounds) = iteration + 1
        /\ files[<<"upper_bounds", ExportedPrefix>>] = objective_values
        /\ files[<<"lower_bounds", ExportedPrefix>>] = lower_bounds

\* the part of C13 the script meets: the two histories have one entry per
\* convergence check, the files hold the bounds of the last check only
C13_HistoriesKept ==
    (csv_output /\ pc \in {"start", "done"} /\ Exported >= 1) =>
        /\ Len(objective_values) = iteration + 1
        /\ Len(lower_bounds) = iteration + 1
        /\ files[<<"objective_values", ExportedPrefix>>] = objective_values
        /\ files[<<"upper_bounds", ExportedPrefix>>]
              = <<objective_values[iteration + 1]>>
        /\ files[<<"lower_bounds", ExportedPrefix>>]
              = <<lower_bounds[iteration + 1]>>

\* C14: a cut is added only after a check that did not converge; the master
\* solution the cut was built from violates it in at least one hour (the
\* averaged cost of the hour is above that alpha), and the master solution
\* of the next solve differs from it.
C14_CutChangesMaster ==
    (pc \in {"iter_loop", "iter_check", "while", "results"} /\ iteration >= 1) =>
        /\ \E H \in HOURS :
              CutLhs(master.cuts[iteration][H], hist.cut_master.u[H],
                     hist.cut_master.p1[H]) > hist.cut_master.alpha[H]
        /\ results_master # hist.cut_master

\* a second cut that moves the commitment, with another hour whose cut is
\* met by the old solution
C14_Witness ==
    /\ pc = "iter_loop"
    /\ iteration >= 2
    /\ results_master.u # hist.cut_master.u
    /\ \E H \in HOURS :
          CutLhs(master.cuts[iteration][H], hist.cut_master.u[H],
                 hist.cut_master.p1[H]) <= hist.cut_master.alpha[H]

\* C15: in the initialization round and in every later round the result
\* stored under index i is the solution of the template whose demand
\* balance has scenario i's load on its right-hand side.
C15_OwnLoad ==
    [][i' = i + 1 =>
          /\ pl' = SAMPLES[i]
          /\ sub'.con_load = SAMPLES[i]
          /\ results_sub'[i] = SolveSub([sub EXCEPT !.con_load = SAMPLES[i]])
          /\ \A s \in DOMAIN results_sub :
                s \in DOMAIN results_sub' /\ results_sub'[s] = results_sub[s]]_vars

\* a later round is complete: it started with the template holding the last
\* scenario, and the two scenarios differ in load and in result
C15_Witness ==
    /\ pc = "iter_check"
    /\ sample_size = 2
    /\ SAMPLES[0] # SAMPLES[1]
    /\ sub.con_load = SAMPLES[1]
    /\ results_sub[0].p2 # results_sub[1].p2

\* C16: at every convergence check of a run the lower bound is not above the
\* upper bound, so the recorded absolute difference is the signed gap the
\* check compares with epsilon, and a converged check has a gap in
\* 0..epsilon.
C16_LowerBelowUpper ==
    /\ Len(lower_bounds) = Len(objective_values)
    /\ Len(bounds_difference) = Len(objective_values)
    /\ \A j \in DOMAIN lower_bounds :
          /\ lower_bounds[j] <= objective_values[j]
          /\ bounds_difference[j] = objective_values[j] - lower_bounds[j]
    /\ (pc = "while" /\ converged) =>
          (0 <= upper_bound - lower_bound /\ upper_bound - lower_bound <= epsilon)

\* a run whose bounds met after a check with a gap and a check within a
\* positive epsilon
C16_Witness ==
    /\ pc = "while"
    /\ converged
    /\ epsilon > 0
    /\ Len(lower_bounds) >= 3
    /\ lower_bounds[1] < objective_values[1]
    /\ lower_bounds[2] < objective_values[2]
    /\ upper_bound - lower_bound <= epsilon

\* C17: with positive c1, l1, c2, l2 the first master solve gives u = 0,
\* p1 = 0 and alpha = alpha down in every hour, the first lower bound is
\* alpha down times the number of hours, the initialization check does not
\* converge and the results stage is reached with at least one cut.
C17_ColdStart ==
    (c1 > 0 /\ l1 > 0 /\ c2 > 0 /\ l2 > 0) =>
        /\ pc \in {"init_loop", "init_check"} =>
              /\ results_master.u = [h \in HOURS |-> 0]
              /\ results_master.p1 = [h \in HOURS |-> 0]
              /\ results_master.alpha = [h \in HOURS |-> alpha_down]
        /\ (pc \notin {"start", "init_loop", "init_check"}) =>
              lower_bounds[1] = alpha_down * Cardinality(HOURS)
        /\ (pc = "while" /\ iteration = 0) => ~converged
        /\ pc = "results" => (iteration >= 1 /\ DOMAIN master.cuts # {})

\* the initialization check of a two-hour instance with a positive fixed
\* cost and a positive epsilon
C17_Witness ==
    /\ pc = "while"
    /\ iteration = 0
    /\ c1 > 0
    /\ epsilon > 0
    /\ Cardinality(HOURS) = 2
    /\ lower_bound = 2 * alpha_down
    /\ ~converged

\* C18: every price point starts clean: a master without cuts, solved to the
\* floor of alpha, a sub template built from scenario 0 and pinned to that
\* master solution, iteration 0, empty histories and no scenario results;
\* the scenario set is never changed.
C18_CleanStart ==
    [][/\ (pc = "start" /\ pc' = "init_loop") =>
            /\ DOMAIN master'.cuts = {}
            /\ master'.alphacon1 = [h \in HOURS |-> alpha_down]
            /\ results_master'.alpha = [h \in HOURS |-> alpha_down]
            /\ results_master'.p1 = [h \in HOURS |-> 0]
            /\ sub' = [con_load |-> SAMPLES[0], dual_con1 |-> results_master'.u,
                       dual_con2 |-> results_master'.p1]
            /\ pl' = SAMPLES[0]
            /\ iteration' = 0
            /\ bounds_difference' = <<>>
            /\ objective_values' = <<>>
            /\ lower_bounds' = <<>>
            /\ DOMAIN results_sub' = {}
            /\ loaded'.master = results_master'
            /\ ~loaded'.has_sub
       /\ SAMPLES' = SAMPLES]_vars

\* the second price point has started clean, after a first one that added
\* a cut, raised alpha above the floor and left its bounds behind
C18_Witness ==
    /\ k = 2
    /\ pc = "init_loop"
    /\ i = 0
    /\ hist.cut_master # <<>>
    /\ \E h \in HOURS : files[<<"results_master", l2s[1]>>].alpha[h] > alpha_down
    /\ converged
    /\ upper_bound > 0
    /\ DOMAIN master.cuts = {}

\* what the loop of lines 322-331 stores for master solution rm, scenario
\* after scenario
InOrder(rm) ==
    [s \in SCEN |-> SolveSub([con_load |-> SAMPLES[s], dual_con1 |-> rm.u,
                              dual_con2 |-> rm.p1])]

EucPriceFiles ==
    {<<n, round4(euc.lmbdas[j])>> :
        n \in {"retailer_lambda", "generator_lambda"}, j \in DOMAIN euc.lmbdas}

\* C20: with csv_output true the retailer and generator files of every price
\* are written; with csv_output false the model is still run for every price
\* and no csv file is written.
C20_CsvOption ==
    /\ euc.pc # "error"
    /\ (euc.csv_output /\ euc.pc \in {"final", "done"}) =>
          EucPriceFiles \subseteq DOMAIN euc.files
    /\ ~euc.csv_output => DOMAIN euc.files = {}
    /\ euc.pc \in {"final", "done"} =>
          Len(euc.objective_values) = Len(euc.lmbdas)

\* the part of C20 the script meets: with csv_output true the run ends with
\* the two files of every price; with csv_output false no file is written,
\* because the run stops at the first price
C20_CsvOptionAsCoded ==
    /\ (euc.csv_output /\ euc.pc \in {"final", "done"}) =>
          /\ EucPriceFiles \subseteq DOMAIN euc.files
          /\ Len(euc.objective_values) = Len(euc.lmbdas)
    /\ euc.csv_output => euc.pc # "error"
    /\ ~euc.csv_output =>
          /\ DOMAIN euc.files = {}
          /\ euc.pos = 1
          /\ euc.pc \in {"model", "collect", "export", "error"}

====
